---- MODULE Spec2Model ----
(***************************************************************************)
(* ResourceCacheDevice (citizen-resources-client): the fixed handle table, *)
(* the fetch-on-demand state machine of EnsureFetched, the completion      *)
(* callback run by the HTTP transport, and the Read/ReadBulk/Close facade. *)
(*                                                                         *)
(* Client threads and transport callbacks interleave.  A program counter   *)
(* value is named after the source line the thread is about to execute.   *)
(* No lock protects a slot's fields, so the steps are cut where another    *)
(* thread's write can fall between two accesses of the code:               *)
(*   - EnsureFetched reads the status at line 193 and again at line 198,   *)
(*     writes it at line 213, and enters wait() at lines 205/330, each a   *)
(*     step of its own; the assignment of the request returned by          *)
(*     DoFileGetRequest (line 245) is a step after the dispatch;           *)
(*   - the completion callback writes the slot (one step) and then calls   *)
(*     notify_all (a second step);                                         *)
(*   - AllocateHandle runs under m_handleLock and is one step; the rest of *)
(*     OpenInternal works on a slot no client holds yet and is one step;   *)
(*   - Read's tests of the status at lines 355-359 are one read, and so    *)
(*     are ReadBulk's at lines 376-397; Seek and GetLength read the status *)
(*     once and are one step each.                                         *)
(* Clients use a handle only between the return of its Open and its Close, *)
(* and Close it once, when no other call on it is running.                 *)
(***************************************************************************)
EXTENDS Integers, FiniteSets, Sequences, TLC

\* ------------------------------------------------------------------ bounds
\* client threads, slots of m_handles, downloads the transport is handed, local
\* handles the parent device gives out, calls the clients make in a run (of
\* two threads, of one thread), base pointers the parent's OpenBulk stores, and
\* offsets and ordinary sizes passed to ReadBulk
NumThreads == 2
NumHandles == 2
MaxDownloads == 2
MaxParentHandle == 1
MaxCalls == 4
MaxSeqCalls == 5
MaxBulkBase == 1
MaxOffset == 1
MaxSize == 1

Threads == 1..NumThreads
Slots == 0..(NumHandles - 1)
Downloads == 1..MaxDownloads
ParentHandles == 1..MaxParentHandle
BulkBases == 0..MaxBulkBase
Offsets == 0..MaxOffset
Sizes == 1..MaxSize

\* what the clients pass as bulkPtr: FALSE for Open (nullptr), TRUE for OpenBulk;
\* the clients of Next call Open, Read, Seek, GetLength and Close
OpenModes == {FALSE}

\* ------------------------------------------------------------------ values
InvalidHandle == -1
NullRequest == 0
NullDevice == "null"
LocalDevice == "local"

StatusEmpty == "StatusEmpty"
StatusNotFetched == "StatusNotFetched"
StatusFetching == "StatusFetching"
StatusFetched == "StatusFetched"
StatusError == "StatusError"
Status == {StatusEmpty, StatusNotFetched, StatusFetching, StatusFetched, StatusError}

\* return values of the facade
NoRet == [v |-> "none", n |-> 0]
RetZero == [v |-> "size", n |-> 0]
RetError == [v |-> "size", n |-> -1]
RetParent(ph) == [v |-> "parent", n |-> ph]
RetHandle(i) == [v |-> "handle", n |-> i]

\* ReadBulk's two sentinel sizes, 0xFFFFFFFE (an active request) and 0xFFFFFFFD,
\* written as the 32-bit integers of the same bit patterns; the weight each
\* passes to SetRequestWeight; the value a sentinel read returns for a fetched
\* file; and the size the manifest entry records
SentinelActive == -2
SentinelInactive == -3
Sentinels == {SentinelActive, SentinelInactive}
NewWeight(size) == IF size = SentinelActive THEN -1 ELSE 1
ProbeFetched == 2048
EntrySize == 3
RetSize(n) == [v |-> "size", n |-> n]
RetParentBulk(ph, ptr, size) == [v |-> "parentBulk", n |-> ph, ptr |-> ptr, size |-> size]
RetParentSeek(ph) == [v |-> "parentSeek", n |-> ph]
RetParentLength(ph) == [v |-> "parentLength", n |-> ph]

VARIABLES
    m_blocking,     \* the device's mode, fixed at construction
    status,         \* m_handles[i].status
    parentDevice,   \* m_handles[i].parentDevice (null or the local device)
    parentHandle,   \* m_handles[i].parentHandle
    getRequest,     \* m_handles[i].getRequest (NullRequest or a download)
    bulkHandle,     \* m_handles[i].bulkHandle
    opened,         \* per slot, the handles returned by Open and not yet closed
    nCalls,         \* the calls the clients have made so far
    fatal,          \* the process has ended (FatalError or a null dereference)
    pc,             \* per thread, the line it is about to execute
    th,             \* per thread, the slot its current call works on
    seen,           \* per thread, the slot's status when the call was made
    req,            \* per thread, the download its current call dispatched
    wokenBy,        \* per thread, the download whose notify_all woke it
    ret,            \* per thread, the value its finished call returns
    dlpc,           \* per download, the transport's position
    dlslot,         \* per download, the HandleData* its callback captured
    stale,          \* per download, its handle was closed while it was pending
    budget,         \* the calls the clients make in this run
    bulkPtr,        \* m_handles[i].bulkPtr
    g_downloadedSet,\* the entry's referenceHash is in g_downloadedSet
    rsize,          \* per thread, the size passed to ReadBulk (0: no ReadBulk)
    rptr,           \* per thread, the ptr passed to ReadBulk
    weights,        \* per thread, the weights its call passed to SetRequestWeight
    viaCache        \* per slot, Open found the file in the cache and opened it

vars == <<m_blocking, status, parentDevice, parentHandle, getRequest, bulkHandle,
          opened, nCalls, fatal, pc, th, seen, req, wokenBy, ret, dlpc, dlslot, stale,
          budget, bulkPtr, g_downloadedSet, rsize, rptr, weights, viaCache>>

slotVars == <<status, parentDevice, parentHandle, getRequest, bulkHandle>>
dlVars == <<dlpc, dlslot, stale>>
localVars == <<th, seen, req, wokenBy, ret>>
argVars == <<rsize, rptr, weights>>

\* ------------------------------------------------------------------ helpers
Min(S) == CHOOSE x \in S : \A y \in S : x <= y

\* threads suspended in lockVar.wait on a slot
Waiting(s) == {t \in Threads : pc[t] \in {"wait205", "wait330"} /\ th[t] = s}

\* threads inside a call on a slot
Busy(s) == {t \in Threads : pc[t] # "idle" /\ th[t] = s}

\* downloads dispatched whose callback has not finished
Pending == {d \in Downloads : dlpc[d] \notin {"none", "done"}}

\* calls that may still reach the dispatch at line 245
MayDispatch == {t \in Threads : pc[t] \in {"ef193", "ef198", "ef213"}}

Used == {d \in Downloads : dlpc[d] # "none"}

\* ------------------------------------------------------------------ Init
Construct ==
    /\ m_blocking \in BOOLEAN
    /\ status = [i \in Slots |-> StatusEmpty]
    /\ parentDevice = [i \in Slots |-> NullDevice]
    /\ parentHandle = [i \in Slots |-> InvalidHandle]
    /\ getRequest = [i \in Slots |-> NullRequest]
    /\ bulkHandle = [i \in Slots |-> FALSE]
    /\ opened = [i \in Slots |-> 0]
    /\ nCalls = 0
    /\ fatal = FALSE
    /\ pc = [t \in Threads |-> "idle"]
    /\ th = [t \in Threads |-> InvalidHandle]
    /\ seen = [t \in Threads |-> StatusEmpty]
    /\ req = [t \in Threads |-> NullRequest]
    /\ wokenBy = [t \in Threads |-> NullRequest]
    /\ ret = [t \in Threads |-> NoRet]
    /\ dlpc = [d \in Downloads |-> "none"]
    /\ dlslot = [d \in Downloads |-> InvalidHandle]
    /\ stale = [d \in Downloads |-> FALSE]
    /\ bulkPtr = [i \in Slots |-> 0]
    /\ g_downloadedSet = FALSE
    /\ rsize = [t \in Threads |-> 0]
    /\ rptr = [t \in Threads |-> 0]
    /\ weights = [t \in Threads |-> <<>>]
    /\ viaCache = [i \in Slots |-> FALSE]

\* two client threads
Init == Construct /\ budget = MaxCalls

\* one client thread
InitSeq == Construct /\ budget = MaxSeqCalls

\* ------------------------------------------------------------------ Open
\* a scan that also takes slots in the provisional/terminal StatusError
FreeSlotsOrError == {i \in Slots : status[i] \in {StatusEmpty, StatusError}}

\* AllocateHandle: the slots the scan under m_handleLock accepts
FreeSlots == {i \in Slots : status[i] = StatusEmpty}

\* an AllocateHandle that cannot take m_handleLock while a reader is suspended
\* in lockVar.wait
Open84UnlessWaiting(t) ==
    /\ ~fatal /\ nCalls < budget /\ nCalls' = nCalls + 1 /\ pc[t] = "idle"
    /\ FreeSlots # {}
    /\ \A s \in Slots : Waiting(s) = {}
    /\ LET i == Min(FreeSlots) IN
        /\ status' = [status EXCEPT ![i] = StatusError]
        /\ th' = [th EXCEPT ![t] = i]
    /\ pc' = [pc EXCEPT ![t] = "op87"]
    /\ UNCHANGED <<m_blocking, budget, viaCache, bulkPtr, g_downloadedSet, argVars, parentDevice,
                   parentHandle, getRequest, bulkHandle, opened, fatal, seen, req, wokenBy,
                   ret, dlVars>>

\* OpenInternal up to AllocateHandle's return: the entry resolves and the first
\* Empty slot is reserved with the provisional StatusError
Open84(t) ==
    /\ ~fatal /\ nCalls < budget /\ nCalls' = nCalls + 1 /\ pc[t] = "idle"
    /\ FreeSlots # {}
    /\ LET i == Min(FreeSlots) IN
        /\ status' = [status EXCEPT ![i] = StatusError]
        /\ th' = [th EXCEPT ![t] = i]
    /\ pc' = [pc EXCEPT ![t] = "op87"]
    /\ UNCHANGED <<m_blocking, budget, viaCache, bulkPtr, g_downloadedSet, argVars, parentDevice, parentHandle, getRequest, bulkHandle,
                   opened, fatal, seen, req, wokenBy, ret, dlVars>>

\* an AllocateHandle that, finding no Empty slot, takes the first slot again
OpenFullRecycles(t) ==
    /\ ~fatal /\ nCalls < budget /\ nCalls' = nCalls + 1 /\ pc[t] = "idle"
    /\ FreeSlots = {}
    /\ status' = [status EXCEPT ![Min(Slots)] = StatusError]
    /\ th' = [th EXCEPT ![t] = Min(Slots)]
    /\ pc' = [pc EXCEPT ![t] = "op87"]
    /\ UNCHANGED <<m_blocking, budget, viaCache, bulkPtr, g_downloadedSet, argVars, parentDevice,
                   parentHandle, getRequest, bulkHandle, opened, fatal, seen, req, wokenBy,
                   ret, dlVars>>

\* AllocateHandle finds no Empty slot: FatalError ends the process
OpenFatal(t) ==
    /\ ~fatal /\ nCalls < budget /\ nCalls' = nCalls + 1 /\ pc[t] = "idle"
    /\ FreeSlots = {}
    /\ fatal' = TRUE
    /\ UNCHANGED <<m_blocking, budget, viaCache, bulkPtr, g_downloadedSet, argVars, slotVars, opened, pc, localVars, dlVars>>

\* an OpenInternal that calls AllocateHandle before it resolves the path
OpenNotFoundAfterAllocate(t) ==
    /\ ~fatal /\ nCalls < budget /\ nCalls' = nCalls + 1 /\ pc[t] = "idle"
    /\ pc' = [pc EXCEPT ![t] = "op_done"]
    /\ ret' = [ret EXCEPT ![t] = RetHandle(InvalidHandle)]
    /\ status' = IF FreeSlots = {} THEN status
                 ELSE [status EXCEPT ![Min(FreeSlots)] = StatusError]
    /\ UNCHANGED <<m_blocking, budget, viaCache, bulkPtr, g_downloadedSet, argVars, parentDevice, parentHandle,
                   getRequest, bulkHandle, opened, fatal, th, seen, req, wokenBy, dlVars>>

\* GetEntryForFileName finds no resource or no item: InvalidHandle
OpenNotFound(t) ==
    /\ ~fatal /\ nCalls < budget /\ nCalls' = nCalls + 1 /\ pc[t] = "idle"
    /\ pc' = [pc EXCEPT ![t] = "op_done"]
    /\ ret' = [ret EXCEPT ![t] = RetHandle(InvalidHandle)]
    /\ UNCHANGED <<m_blocking, budget, viaCache, bulkPtr, g_downloadedSet, argVars, slotVars, opened, fatal, th, seen, req, wokenBy, dlVars>>

\* OpenInternal lines 87-122, on the slot AllocateHandle reserved and no client
\* holds yet: Open passes bulkPtr = nullptr and OpenBulk a pointer; the cache
\* lookup misses (hit = FALSE) or hits, and on a hit vfs::GetDevice yields dev
\* and the local open yields ph; the parent's OpenBulk stores a base pointer in
\* the slot's bulkPtr
Open87(t, bulk, hit, dev, ph) ==
    /\ ~fatal /\ UNCHANGED nCalls
    /\ pc[t] = "op87"
    /\ LET i == th[t] IN
        /\ bulkHandle' = [bulkHandle EXCEPT ![i] = bulk]
        /\ parentDevice' = IF hit THEN [parentDevice EXCEPT ![i] = dev] ELSE parentDevice
        /\ parentHandle' = IF hit /\ dev # NullDevice
                           THEN [parentHandle EXCEPT ![i] = ph] ELSE parentHandle
        /\ status' = [status EXCEPT ![i] =
                        IF hit /\ dev # NullDevice /\ ph # InvalidHandle
                        THEN StatusFetched ELSE StatusNotFetched]
        /\ opened' = [opened EXCEPT ![i] = @ + 1]
        /\ viaCache' = [viaCache EXCEPT ![i] = hit /\ dev # NullDevice /\ ph # InvalidHandle]
        /\ \E b \in BulkBases :
            bulkPtr' = IF bulk /\ hit /\ dev # NullDevice
                       THEN [bulkPtr EXCEPT ![i] = b] ELSE bulkPtr
    /\ pc' = [pc EXCEPT ![t] = "idle"]
    /\ th' = [th EXCEPT ![t] = InvalidHandle]
    /\ UNCHANGED <<m_blocking, budget, g_downloadedSet, argVars, getRequest, fatal, seen, req, wokenBy, ret, dlVars>>

\* the call returns to the client
Return(t) ==
    /\ ~fatal /\ UNCHANGED nCalls
    /\ pc[t] \in {"op_done", "rd_done", "sk_done", "gl_done"}
    /\ pc' = [pc EXCEPT ![t] = "idle"]
    /\ th' = [th EXCEPT ![t] = InvalidHandle]
    /\ seen' = [seen EXCEPT ![t] = StatusEmpty]
    /\ req' = [req EXCEPT ![t] = NullRequest]
    /\ wokenBy' = [wokenBy EXCEPT ![t] = NullRequest]
    /\ ret' = [ret EXCEPT ![t] = NoRet]
    /\ rsize' = [rsize EXCEPT ![t] = 0]
    /\ rptr' = [rptr EXCEPT ![t] = 0]
    /\ weights' = [weights EXCEPT ![t] = <<>>]
    /\ UNCHANGED <<m_blocking, budget, viaCache, bulkPtr, g_downloadedSet, slotVars, opened, fatal, dlVars>>

\* ------------------------------------------------------------------ Read
\* Read, on a handle from Open, enters EnsureFetched
ReadCall(t, h) ==
    /\ ~fatal /\ nCalls < budget /\ nCalls' = nCalls + 1 /\ pc[t] = "idle"
    /\ opened[h] > 0 /\ ~bulkHandle[h]
    /\ Cardinality(Used) + Cardinality(MayDispatch) < MaxDownloads
    /\ pc' = [pc EXCEPT ![t] = "ef193"]
    /\ th' = [th EXCEPT ![t] = h]
    /\ seen' = [seen EXCEPT ![t] = status[h]]
    /\ UNCHANGED <<m_blocking, budget, viaCache, bulkPtr, g_downloadedSet, argVars, slotVars, opened, fatal, req, wokenBy, ret, dlVars>>

\* EnsureFetched line 193: is it fetched already?
EF193(t) ==
    /\ ~fatal /\ UNCHANGED nCalls
    /\ pc[t] = "ef193"
    /\ pc' = [pc EXCEPT ![t] = IF status[th[t]] = StatusFetched THEN "rd355" ELSE "ef198"]
    /\ UNCHANGED <<m_blocking, budget, viaCache, bulkPtr, g_downloadedSet, argVars, slotVars, opened, fatal, localVars, dlVars>>

\* EnsureFetched lines 198-209: a fetch is under way; a blocking device goes on
\* to wait, a non-blocking one returns false
EF198(t) ==
    /\ ~fatal /\ UNCHANGED nCalls
    /\ pc[t] = "ef198"
    /\ pc' = [pc EXCEPT ![t] =
                IF status[th[t]] = StatusFetching
                THEN (IF m_blocking THEN "ef204" ELSE "rd355")
                ELSE "ef213"]
    /\ UNCHANGED <<m_blocking, budget, viaCache, bulkPtr, g_downloadedSet, argVars, slotVars, opened, fatal, localVars, dlVars>>

\* EnsureFetched lines 204-205 and 329-330: lock lockMutex and enter lockVar.wait
EnterWait(t) ==
    /\ ~fatal /\ UNCHANGED nCalls
    /\ pc[t] \in {"ef204", "ef329"}
    /\ pc' = [pc EXCEPT ![t] = IF pc[t] = "ef204" THEN "wait205" ELSE "wait330"]
    /\ UNCHANGED <<m_blocking, budget, viaCache, bulkPtr, g_downloadedSet, argVars, slotVars, opened, fatal, localVars, dlVars>>

\* an EnsureFetched that does not fetch an entry whose hash is in g_downloadedSet
EF213UnlessDownloaded(t) ==
    /\ ~fatal /\ UNCHANGED nCalls
    /\ pc[t] = "ef213"
    /\ IF g_downloadedSet
       THEN /\ pc' = [pc EXCEPT ![t] = "rd355"]
            /\ UNCHANGED <<status, dlpc, dlslot, req>>
       ELSE /\ status' = [status EXCEPT ![th[t]] = StatusFetching]
            /\ LET d == Min(Downloads \ Used) IN
                /\ dlpc' = [dlpc EXCEPT ![d] = "inflight"]
                /\ dlslot' = [dlslot EXCEPT ![d] = th[t]]
                /\ req' = [req EXCEPT ![t] = d]
            /\ pc' = [pc EXCEPT ![t] = "ef245r"]
    /\ UNCHANGED <<m_blocking, budget, viaCache, bulkPtr, g_downloadedSet, argVars, parentDevice,
                   parentHandle, getRequest, bulkHandle, opened, fatal, th, seen, wokenBy,
                   ret, stale>>

\* EnsureFetched lines 213-245, the call: the status is set to Fetching and
\* DoFileGetRequest hands the download and its callback (capturing handleData)
\* to the transport
EF213(t) ==
    /\ ~fatal /\ UNCHANGED nCalls
    /\ pc[t] = "ef213"
    /\ status' = [status EXCEPT ![th[t]] = StatusFetching]
    /\ LET d == Min(Downloads \ Used) IN
        /\ dlpc' = [dlpc EXCEPT ![d] = "inflight"]
        /\ dlslot' = [dlslot EXCEPT ![d] = th[t]]
        /\ req' = [req EXCEPT ![t] = d]
    /\ pc' = [pc EXCEPT ![t] = "ef245r"]
    /\ UNCHANGED <<m_blocking, budget, viaCache, bulkPtr, g_downloadedSet, argVars, parentDevice, parentHandle, getRequest, bulkHandle,
                   opened, fatal, th, seen, wokenBy, ret, stale>>

\* EnsureFetched line 245, the assignment of the returned request, and the
\* m_blocking test of line 325
EF245r(t) ==
    /\ ~fatal /\ UNCHANGED nCalls
    /\ pc[t] = "ef245r"
    /\ getRequest' = [getRequest EXCEPT ![th[t]] = req[t]]
    /\ pc' = [pc EXCEPT ![t] = IF m_blocking THEN "ef329" ELSE "rd355"]
    /\ UNCHANGED <<m_blocking, budget, viaCache, bulkPtr, g_downloadedSet, argVars, status, parentDevice, parentHandle, bulkHandle,
                   opened, fatal, localVars, dlVars>>

\* std::condition_variable::wait may return without a notification
SpuriousWake(t) ==
    /\ ~fatal /\ UNCHANGED nCalls
    /\ pc[t] \in {"wait205", "wait330"}
    /\ pc' = [pc EXCEPT ![t] = "rd355"]
    /\ UNCHANGED <<m_blocking, budget, viaCache, bulkPtr, g_downloadedSet, argVars, slotVars, opened, fatal, localVars, dlVars>>

\* Read lines 355-364: the value the call returns for the status it reads now
ReadResult(i) ==
    IF status[i] \in {StatusNotFetched, StatusFetching} THEN RetZero
    ELSE IF status[i] = StatusError THEN RetError
    ELSE RetParent(parentHandle[i])

\* Read lines 355-364: a null parentDevice is dereferenced at line 364
RD355(t) ==
    /\ ~fatal /\ UNCHANGED nCalls
    /\ pc[t] = "rd355" /\ rsize[t] = 0
    /\ LET i == th[t] IN
        /\ ret' = [ret EXCEPT ![t] = ReadResult(i)]
        /\ fatal' = (ReadResult(i).v = "parent" /\ parentDevice[i] = NullDevice)
    /\ pc' = [pc EXCEPT ![t] = "rd_done"]
    /\ UNCHANGED <<m_blocking, budget, viaCache, bulkPtr, g_downloadedSet, argVars, slotVars, opened, th, seen, req, wokenBy, dlVars>>

\* ------------------------------------------------------------------ ReadBulk
\* ReadBulk, on a handle from OpenBulk, enters EnsureFetched at line 373, before
\* it looks at the size
ReadBulkCall(t, h, ptr, size) ==
    /\ ~fatal /\ nCalls < budget /\ nCalls' = nCalls + 1 /\ pc[t] = "idle"
    /\ opened[h] > 0 /\ bulkHandle[h]
    /\ Cardinality(Used) + Cardinality(MayDispatch) < MaxDownloads
    /\ pc' = [pc EXCEPT ![t] = "ef193"]
    /\ th' = [th EXCEPT ![t] = h]
    /\ seen' = [seen EXCEPT ![t] = status[h]]
    /\ rsize' = [rsize EXCEPT ![t] = size]
    /\ rptr' = [rptr EXCEPT ![t] = ptr]
    /\ UNCHANGED <<m_blocking, budget, viaCache, bulkPtr, g_downloadedSet, weights, slotVars, opened, fatal,
                   req, wokenBy, ret, dlVars>>

\* a ReadBulk that passes ptr to the parent as it is
BulkResultNoBase(i, ptr, size) ==
    IF status[i] \in {StatusNotFetched, StatusFetching} THEN RetZero
    ELSE IF status[i] = StatusError THEN RetError
    ELSE RetParentBulk(parentHandle[i], ptr, size)

\* ReadBulk lines 393-402, an ordinary size: the value the call returns for the
\* status it reads now
BulkResult(i, ptr, size) ==
    IF status[i] \in {StatusNotFetched, StatusFetching} THEN RetZero
    ELSE IF status[i] = StatusError THEN RetError
    ELSE RetParentBulk(parentHandle[i], ptr + bulkPtr[i], size)

\* ReadBulk lines 376-389, a sentinel size: the value the call returns
ProbeResult(i) == IF status[i] = StatusFetched THEN RetSize(ProbeFetched) ELSE RetZero

\* ReadBulk lines 376-402, after EnsureFetched has returned
RB376(t) ==
    /\ ~fatal /\ UNCHANGED nCalls
    /\ pc[t] = "rd355" /\ rsize[t] # 0
    /\ LET i == th[t] IN
        IF rsize[t] \in Sentinels
        THEN /\ weights' = [weights EXCEPT ![t] =
                    IF getRequest[i] # NullRequest THEN <<NewWeight(rsize[t])>> ELSE <<>>]
             /\ ret' = [ret EXCEPT ![t] = ProbeResult(i)]
             /\ UNCHANGED fatal
        ELSE /\ ret' = [ret EXCEPT ![t] = BulkResult(i, rptr[t], rsize[t])]
             /\ fatal' = (BulkResult(i, rptr[t], rsize[t]).v = "parentBulk"
                            /\ parentDevice[i] = NullDevice)
             /\ UNCHANGED weights
    /\ pc' = [pc EXCEPT ![t] = "rd_done"]
    /\ UNCHANGED <<m_blocking, budget, viaCache, bulkPtr, g_downloadedSet, rsize, rptr, slotVars, opened,
                   th, seen, req, wokenBy, dlVars>>

\* ------------------------------------------------------------------ Seek, GetLength
\* a Seek that calls the parent whatever the status
SeekResultUnchecked(i) == RetParentSeek(parentHandle[i])

\* Seek lines 411-416: the value the call returns
SeekResult(i) ==
    IF status[i] # StatusFetched THEN RetError ELSE RetParentSeek(parentHandle[i])

\* Seek: one read of the status, then the parent's Seek
Seek(t, h) ==
    /\ ~fatal /\ nCalls < budget /\ nCalls' = nCalls + 1 /\ pc[t] = "idle"
    /\ opened[h] > 0
    /\ ret' = [ret EXCEPT ![t] = SeekResult(h)]
    /\ fatal' = (status[h] = StatusFetched /\ parentDevice[h] = NullDevice)
    /\ pc' = [pc EXCEPT ![t] = "sk_done"]
    /\ th' = [th EXCEPT ![t] = h]
    /\ UNCHANGED <<m_blocking, budget, viaCache, bulkPtr, g_downloadedSet, argVars, slotVars, opened,
                   seen, req, wokenBy, dlVars>>

\* GetLength lines 477-482: the value the call returns
LengthResult(i) ==
    IF status[i] = StatusFetched THEN RetParentLength(parentHandle[i]) ELSE RetSize(EntrySize)

\* GetLength: one read of the status, then the parent's GetLength or entry.size
GetLength(t, h) ==
    /\ ~fatal /\ nCalls < budget /\ nCalls' = nCalls + 1 /\ pc[t] = "idle"
    /\ opened[h] > 0
    /\ ret' = [ret EXCEPT ![t] = LengthResult(h)]
    /\ fatal' = (status[h] = StatusFetched /\ parentDevice[h] = NullDevice)
    /\ pc' = [pc EXCEPT ![t] = "gl_done"]
    /\ th' = [th EXCEPT ![t] = h]
    /\ UNCHANGED <<m_blocking, budget, viaCache, bulkPtr, g_downloadedSet, argVars, slotVars, opened,
                   seen, req, wokenBy, dlVars>>

\* ------------------------------------------------------------------ Close
\* Close / CloseBulk, called by the handle's owner once no call on it is running
Close(t, h) ==
    /\ ~fatal /\ nCalls < budget /\ nCalls' = nCalls + 1 /\ pc[t] = "idle"
    /\ opened[h] > 0
    /\ Busy(h) = {}
    /\ opened' = [opened EXCEPT ![h] = @ - 1]
    /\ fatal' = (status[h] = StatusFetched /\ parentDevice[h] = NullDevice)
    /\ status' = [status EXCEPT ![h] = StatusEmpty]
    /\ stale' = [d \in Downloads |-> stale[d] \/ (d \in Pending /\ dlslot[d] = h)]
    /\ viaCache' = [viaCache EXCEPT ![h] = FALSE]
    /\ UNCHANGED <<m_blocking, budget, bulkPtr, g_downloadedSet, argVars, parentDevice, parentHandle, getRequest, bulkHandle,
                   pc, localVars, dlpc, dlslot>>

\* ------------------------------------------------------------------ transport
\* completion callback, lines 253-283: result is false or the file is empty
Cb255(d) ==
    /\ ~fatal /\ UNCHANGED nCalls
    /\ dlpc[d] = "inflight"
    /\ status' = [status EXCEPT ![dlslot[d]] = StatusError]
    /\ getRequest' = [getRequest EXCEPT ![dlslot[d]] = NullRequest]
    /\ dlpc' = [dlpc EXCEPT ![d] = "cb322"]
    /\ UNCHANGED <<m_blocking, budget, viaCache, bulkPtr, g_downloadedSet, argVars, parentDevice, parentHandle, bulkHandle,
                   opened, fatal, pc, localVars, dlslot, stale>>

\* completion callback, lines 285-319: the download succeeded; vfs::GetDevice
\* yields dev and, when it is not null, the local open yields ph; the entry's
\* hash is inserted into g_downloadedSet (line 294) and, for a bulk handle, the
\* parent's OpenBulk stores a base pointer in the slot's bulkPtr
Cb305(d, dev, ph) ==
    /\ ~fatal /\ UNCHANGED nCalls
    /\ dlpc[d] = "inflight"
    /\ parentDevice' = [parentDevice EXCEPT ![dlslot[d]] = dev]
    /\ parentHandle' = IF dev # NullDevice
                       THEN [parentHandle EXCEPT ![dlslot[d]] = ph] ELSE parentHandle
    /\ status' = [status EXCEPT ![dlslot[d]] = StatusFetched]
    /\ getRequest' = [getRequest EXCEPT ![dlslot[d]] = NullRequest]
    /\ dlpc' = [dlpc EXCEPT ![d] = "cb322"]
    /\ g_downloadedSet' = TRUE
    /\ \E b \in BulkBases :
        bulkPtr' = IF bulkHandle[dlslot[d]] /\ dev # NullDevice
                   THEN [bulkPtr EXCEPT ![dlslot[d]] = b] ELSE bulkPtr
    /\ UNCHANGED <<m_blocking, budget, viaCache, argVars, bulkHandle, opened, fatal, pc, localVars, dlslot, stale>>

\* a notify_one in place of notify_all
NotifiedOne(s) == IF Waiting(s) = {} THEN {} ELSE {Min(Waiting(s))}

\* lockVar.notify_all: the threads it unblocks
Notified(s) == Waiting(s)

\* completion callback, line 322
Cb322(d) ==
    /\ ~fatal /\ UNCHANGED nCalls
    /\ dlpc[d] = "cb322"
    /\ pc' = [t \in Threads |-> IF t \in Notified(dlslot[d]) THEN "rd355" ELSE pc[t]]
    /\ wokenBy' = [t \in Threads |-> IF t \in Notified(dlslot[d]) THEN d ELSE wokenBy[t]]
    /\ dlpc' = [dlpc EXCEPT ![d] = "done"]
    /\ stale' = [stale EXCEPT ![d] = FALSE]
    /\ UNCHANGED <<m_blocking, budget, viaCache, bulkPtr, g_downloadedSet, argVars, slotVars, opened, fatal, th, seen, req, ret, dlslot>>

Next ==
    \/ \E t \in Threads : Open84(t)
    \/ \E t \in Threads : OpenFatal(t)
    \/ \E t \in Threads : OpenNotFound(t)
    \/ \E t \in Threads, bulk \in OpenModes, hit \in BOOLEAN,
          dev \in {NullDevice, LocalDevice}, ph \in ParentHandles \cup {InvalidHandle} :
            Open87(t, bulk, hit, dev, ph)
    \/ \E t \in Threads : Return(t)
    \/ \E t \in Threads, h \in Slots : ReadCall(t, h)
    \/ \E t \in Threads : EF193(t)
    \/ \E t \in Threads : EF198(t)
    \/ \E t \in Threads : EnterWait(t)
    \/ \E t \in Threads : EF213(t)
    \/ \E t \in Threads : EF245r(t)
    \/ \E t \in Threads : SpuriousWake(t)
    \/ \E t \in Threads : RD355(t)
    \/ \E t \in Threads, h \in Slots : Close(t, h)
    \/ \E t \in Threads, h \in Slots : Seek(t, h)
    \/ \E t \in Threads, h \in Slots : GetLength(t, h)
    \/ \E d \in Downloads : Cb255(d)
    \/ \E d \in Downloads, dev \in {NullDevice, LocalDevice},
          ph \in ParentHandles \cup {InvalidHandle} : Cb305(d, dev, ph)
    \/ \E d \in Downloads : Cb322(d)

Spec == Init /\ [][Next]_vars

\* the transport runs every callback it was handed and every call in progress
\* takes its next step; clients need not call again and wait() need not return
\* spuriously
ThreadStep(t) ==
    \/ \E bulk \in OpenModes, hit \in BOOLEAN, dev \in {NullDevice, LocalDevice},
          ph \in ParentHandles \cup {InvalidHandle} : Open87(t, bulk, hit, dev, ph)
    \/ EF193(t) \/ EF198(t) \/ EnterWait(t) \/ EF213(t) \/ EF245r(t) \/ RD355(t)
    \/ Return(t)

Callback(d) ==
    \/ Cb255(d)
    \/ \E dev \in {NullDevice, LocalDevice}, ph \in ParentHandles \cup {InvalidHandle} :
            Cb305(d, dev, ph)
    \/ Cb322(d)

Fairness ==
    /\ \A t \in Threads : WF_vars(ThreadStep(t))
    /\ \A d \in Downloads : WF_vars(Callback(d))

SpecFair == Init /\ [][Next]_vars /\ Fairness

\* one client thread that uses the whole facade: Open and OpenBulk, Read and
\* ReadBulk with ordinary and sentinel sizes, Seek, GetLength and Close
SeqClients == {1}
ReadSizes == Sizes \cup Sentinels

NextSeq ==
    \/ \E t \in SeqClients : Open84(t)
    \/ \E t \in SeqClients : OpenFatal(t)
    \/ \E t \in SeqClients : OpenNotFound(t)
    \/ \E t \in SeqClients, bulk \in BOOLEAN, hit \in BOOLEAN,
          dev \in {NullDevice, LocalDevice}, ph \in ParentHandles \cup {InvalidHandle} :
            Open87(t, bulk, hit, dev, ph)
    \/ \E t \in SeqClients : Return(t)
    \/ \E t \in SeqClients, h \in Slots : ReadCall(t, h)
    \/ \E t \in SeqClients, h \in Slots, ptr \in Offsets, size \in ReadSizes :
            ReadBulkCall(t, h, ptr, size)
    \/ \E t \in SeqClients : EF193(t)
    \/ \E t \in SeqClients : EF198(t)
    \/ \E t \in SeqClients : EnterWait(t)
    \/ \E t \in SeqClients : EF213(t)
    \/ \E t \in SeqClients : EF245r(t)
    \/ \E t \in SeqClients : SpuriousWake(t)
    \/ \E t \in SeqClients : RD355(t)
    \/ \E t \in SeqClients : RB376(t)
    \/ \E t \in SeqClients, h \in Slots : Seek(t, h)
    \/ \E t \in SeqClients, h \in Slots : GetLength(t, h)
    \/ \E t \in SeqClients, h \in Slots : Close(t, h)
    \/ \E d \in Downloads : Cb255(d)
    \/ \E d \in Downloads, dev \in {NullDevice, LocalDevice},
          ph \in ParentHandles \cup {InvalidHandle} : Cb305(d, dev, ph)
    \/ \E d \in Downloads : Cb322(d)

SpecSeq == InitSeq /\ [][NextSeq]_vars

\* ================================================================== claims
InRead(t) == pc[t] \in {"ef193", "ef198", "ef204", "wait205", "ef213", "ef245r",
                        "ef329", "wait330", "rd355"}

\* C1: a Read/ReadBulk with an ordinary size made on a slot in Error returns the
\* error sentinel (size_t)-1 and dispatches no new download (the claim's case
\* for a slot that is in Error when the call is made).
C1_ErrorReadReturnsSentinel ==
    \A t \in Threads :
        (pc[t] = "rd_done" /\ seen[t] = StatusError)
            => (ret[t] = RetError /\ req[t] = NullRequest)

\* C2: on a blocking device, with every dispatched download's callback run
\* exactly once, every Read/ReadBulk that was called returns (or the process
\* has ended).
C2_BlockingReadReturns ==
    \A t \in Threads :
        (m_blocking /\ InRead(t)) ~> (pc[t] = "rd_done" \/ fatal)

\* C3: on a blocking device a Read/ReadBulk that started on a slot in NotFetched
\* or Fetching never returns 0, the value for a fetch that is still pending.
C3_BlockingReadNeverZero ==
    \A t \in Threads :
        (m_blocking /\ pc[t] = "rd_done"
            /\ seen[t] \in {StatusNotFetched, StatusFetching})
            => ret[t] # RetZero

\* C4: every slot in Fetched holds a non-null parentDevice and a parentHandle
\* other than InvalidHandle (the claim's direction from Fetched to the parent
\* fields).
C4_FetchedHasValidParent ==
    \A i \in Slots :
        status[i] = StatusFetched
            => (parentDevice[i] # NullDevice /\ parentHandle[i] # InvalidHandle)

LegalTransition(a, b) ==
    \/ a = StatusEmpty /\ b = StatusError
    \/ a = StatusError /\ b \in {StatusNotFetched, StatusFetched}
    \/ a = StatusNotFetched /\ b = StatusFetching
    \/ a = StatusFetching /\ b \in {StatusFetched, StatusError}
    \/ b = StatusEmpty

C6_OnlyLegalTransitions ==
    [][\A i \in Slots :
        status'[i] # status[i] => LegalTransition(status[i], status'[i])]_vars

\* C7: for every slot at most one dispatched download is not yet completed.
C7_OneDownloadPerSlot ==
    \A i \in Slots : Cardinality({d \in Pending : dlslot[d] = i}) <= 1

\* C8: the callback of a download whose handle was closed while the download was
\* pending changes neither the status, the parent fields nor the request of the
\* slot.
C8_StaleCallbackChangesNothing ==
    [][\A d \in Downloads :
        (stale[d] /\ dlpc'[d] # dlpc[d])
            => /\ status'[dlslot[d]] = status[dlslot[d]]
               /\ parentDevice'[dlslot[d]] = parentDevice[dlslot[d]]
               /\ parentHandle'[dlslot[d]] = parentHandle[dlslot[d]]
               /\ getRequest'[dlslot[d]] = getRequest[dlslot[d]]]_vars

\* C9: once every opened handle has been closed, every call has returned and
\* every dispatched download has completed, every slot is Empty.
Quiescent ==
    /\ ~fatal
    /\ \A i \in Slots : opened[i] = 0
    /\ \A t \in Threads : pc[t] = "idle"
    /\ Pending = {}

C9_NoSlotLeak ==
    Quiescent => \A i \in Slots : status[i] = StatusEmpty

\* C10: no slot is held by more than one handle at a time, counting the handles
\* returned by Open and not yet closed and the slots AllocateHandle has reserved
\* for an Open that has not returned yet.
Holders(i) == opened[i] + Cardinality({t \in Threads : pc[t] = "op87" /\ th[t] = i})

C10_OneHandlePerSlot ==
    \A i \in Slots : Holders(i) <= 1

\* a slot released by Close while its download was pending has been allocated
\* again and returned by a later Open
C10_Witness ==
    \E d \in Downloads :
        /\ stale[d]
        /\ opened[dlslot[d]] = 1
        /\ status[dlslot[d]] # StatusEmpty

\* C11: an Open/OpenBulk whose path does not resolve returns InvalidHandle, and
\* the step leaves every slot's fields, the handles held by clients and the
\* downloads handed to the transport as they were.
C11_NotFoundLeavesTable ==
    [][\A t \in Threads :
        (pc[t] = "idle" /\ pc'[t] = "op_done" /\ ret'[t].v = "handle")
            => /\ ret'[t] = RetHandle(InvalidHandle)
               /\ slotVars' = slotVars /\ bulkPtr' = bulkPtr /\ opened' = opened
               /\ dlVars' = dlVars /\ fatal' = fatal]_vars

\* an unresolved Open has returned InvalidHandle while another handle's download
\* is in flight
C11_Witness ==
    \E t \in Threads, i \in Slots :
        /\ pc[t] = "op_done" /\ ret[t] = RetHandle(InvalidHandle)
        /\ status[i] = StatusFetching /\ opened[i] = 1

\* C12: a handle that Open returned in Fetched, from the cache, never has a
\* download dispatched by a Read/ReadBulk made on it.
C12_CachedHandleNeverDispatches ==
    \A t \in Threads :
        ((InRead(t) \/ pc[t] = "rd_done") /\ viaCache[th[t]]) => req[t] = NullRequest

\* C13: a ReadBulk with a sentinel size never reaches the parent's ReadBulk,
\* dispatches no download, returns 0 or the nonzero probe value, and has called
\* SetRequestWeight once if the slot was in Fetching when the call was made and
\* not at all otherwise.
C13_SentinelReadIsProbeOnly ==
    \A t \in Threads :
        (pc[t] = "rd_done" /\ rsize[t] \in Sentinels)
            => /\ ret[t] \in {RetZero, RetSize(ProbeFetched)}
               /\ req[t] = NullRequest
               /\ Len(weights[t]) = (IF seen[t] = StatusFetching THEN 1 ELSE 0)

\* C14: a ReadBulk with an ordinary size that finds its bulk handle in Fetched,
\* with the parent device that stored the slot's base pointer, hands the parent
\* one ReadBulk on the slot's parentHandle at base pointer + offset with the
\* size it was given.
C14_BulkReadAddsBase ==
    [][\A t \in Threads :
        (pc[t] = "rd355" /\ pc'[t] = "rd_done" /\ rsize[t] \in Sizes
            /\ status[th[t]] = StatusFetched /\ parentDevice[th[t]] # NullDevice)
            => ret'[t] = [v |-> "parentBulk", n |-> parentHandle[th[t]],
                          ptr |-> bulkPtr[th[t]] + rptr[t], size |-> rsize[t]]]_vars

\* a bulk read at a nonzero offset of a file whose base pointer is not zero
C14_Witness ==
    \E t \in Threads :
        /\ pc[t] = "rd_done" /\ ~fatal /\ ret[t].v = "parentBulk"
        /\ rptr[t] = MaxOffset /\ bulkPtr[th[t]] = MaxBulkBase /\ ret[t].ptr = MaxOffset + MaxBulkBase

\* C15: an Open/OpenBulk never reserves a slot when no slot is Empty, and the
\* step in which a resolvable Open ends the process for want of a slot happens
\* only with no slot Empty, changes no slot and returns nothing to any caller.
C15_ExhaustionIsFatalOnly ==
    [][/\ \A t \in Threads : (pc[t] = "idle" /\ pc'[t] = "op87") => FreeSlots # {}
       /\ (~fatal /\ fatal' /\ pc' = pc /\ opened' = opened)
            => (FreeSlots = {} /\ slotVars' = slotVars /\ bulkPtr' = bulkPtr
                /\ ret' = ret /\ th' = th /\ dlVars' = dlVars)]_vars

\* the process has ended in an Open made while every slot was held by a client
C15_Witness ==
    /\ fatal /\ FreeSlots = {}
    /\ \A i \in Slots : opened[i] = 1
    /\ \A t \in Threads : pc[t] = "idle"

\* C16: in every state, a slot's getRequest is non-null exactly when the slot's
\* status is Fetching.
C16_RequestIffFetching ==
    \A i \in Slots : (getRequest[i] # NullRequest) <=> (status[i] = StatusFetching)

\* C17: on a non-blocking device no thread is at or in a wait on a slot's
\* lockVar, and a Read/ReadBulk that dispatched a download has returned with
\* the slot still in Fetching as long as its download's callback has not run
\* (and the handle has not been closed).
C17_NonBlockingLeavesFetching ==
    ~m_blocking =>
        \A t \in Threads :
            /\ pc[t] \notin {"ef204", "wait205", "ef329", "wait330"}
            /\ (pc[t] = "rd_done" /\ req[t] # NullRequest
                    /\ dlpc[req[t]] = "inflight" /\ ~stale[req[t]])
                => status[th[t]] = StatusFetching

\* C18: a Seek or GetLength changes no field of any slot and hands nothing to
\* the transport; on a slot that is not Fetched, Seek returns (size_t)-1 and
\* GetLength the entry's size, neither a value of the parent; on a Fetched slot
\* each returns what the parent's Seek or GetLength on parentHandle returns
\* (unless the slot has no parent device and the call ends the process).
C18_SeekGetLengthFrame ==
    [][\A t \in Threads :
        (pc[t] = "idle" /\ pc'[t] \in {"sk_done", "gl_done"})
            => /\ slotVars' = slotVars /\ bulkPtr' = bulkPtr /\ opened' = opened
               /\ dlVars' = dlVars /\ req' = req
               /\ LET i == th'[t] IN
                    fatal' \/
                    ret'[t] = IF pc'[t] = "sk_done"
                              THEN (IF status[i] = StatusFetched
                                    THEN RetParentSeek(parentHandle[i]) ELSE RetError)
                              ELSE (IF status[i] = StatusFetched
                                    THEN RetParentLength(parentHandle[i])
                                    ELSE RetSize(EntrySize))]_vars

\* a Seek has failed on a handle whose download is in flight
C18_Witness ==
    \E t \in Threads :
        /\ pc[t] = "sk_done" /\ ret[t] = RetError
        /\ status[th[t]] = StatusFetching /\ getRequest[th[t]] # NullRequest

\* C19: whatever g_downloadedSet holds, a read that finds its slot neither
\* Fetched (line 193) nor Fetching (line 198) goes on to dispatch a download of
\* its own for its own slot, and a completion callback writes the status of
\* the slot its download was dispatched for and of no other.
C19_DownloadedSetNeverGates ==
    [][/\ \A t \in Threads :
            /\ (pc[t] = "ef198" /\ pc'[t] # "ef198" /\ status[th[t]] # StatusFetching)
                => pc'[t] = "ef213"
            /\ (pc[t] = "ef213" /\ pc'[t] # "ef213")
                => \E d \in Downloads :
                    /\ dlpc[d] = "none" /\ dlpc'[d] = "inflight"
                    /\ dlslot'[d] = th[t] /\ req'[t] = d
                    /\ status'[th[t]] = StatusFetching
       /\ \A d \in Downloads :
            (dlpc[d] = "inflight" /\ dlpc'[d] = "cb322")
                => /\ status'[dlslot[d]] \in {StatusFetched, StatusError}
                   /\ \A i \in Slots \ {dlslot[d]} : status'[i] = status[i]]_vars

\* two handles are open on the entry; the first one's download has succeeded
\* and put the hash into g_downloadedSet, and the second, opened on a cache
\* miss, has dispatched a download of its own
C19_Witness ==
    \E t \in Threads, d \in Downloads :
        /\ pc[t] = "ef245r" /\ g_downloadedSet /\ req[t] # d
        /\ dlpc[d] = "done" /\ dlslot[d] # th[t]
        /\ status[dlslot[d]] = StatusFetched /\ status[th[t]] = StatusFetching
        /\ opened[dlslot[d]] = 1 /\ opened[th[t]] = 1 /\ ~viaCache[th[t]]

\* C20: while a thread is suspended in lockVar.wait on one handle, another
\* thread can start an Open, and a Seek, GetLength, Read or Close on any other
\* open handle, and can take the next step of a call it is making on another
\* handle, as far as the clients still have calls to make (and, for Close,
\* no call on that handle is running).
C20_WaitBlocksNoOtherHandle ==
    \A t1, t2 \in Threads :
        (t1 # t2 /\ ~fatal /\ pc[t1] \in {"wait205", "wait330"}) =>
            /\ (pc[t2] \notin {"idle", "wait205", "wait330"} /\ th[t2] # th[t1])
                    => ENABLED ThreadStep(t2)
            /\ (pc[t2] = "idle" /\ nCalls < budget) =>
                /\ ENABLED (Open84(t2) \/ OpenFatal(t2))
                /\ ENABLED OpenNotFound(t2)
                /\ \A h \in Slots \ {th[t1]} :
                    opened[h] > 0 =>
                        /\ ENABLED Seek(t2, h) /\ ENABLED GetLength(t2, h)
                        /\ (Busy(h) = {}) => ENABLED Close(t2, h)
                        /\ (Cardinality(Used) + Cardinality(MayDispatch) < MaxDownloads)
                                => ENABLED ReadCall(t2, h)

\* a Read on a second handle has run to its end while the first handle's reader
\* is still suspended and the first handle's download has not finished
C20_Witness ==
    \E t1, t2 \in Threads :
        /\ pc[t1] = "wait330" /\ dlpc[req[t1]] = "inflight"
        /\ pc[t2] = "rd_done" /\ th[t2] # th[t1] /\ ret[t2].v = "parent" /\ ~fatal
====
